---- MODULE Spec2Model ----
(***************************************************************************)
(* Model of the gift recommendation engine of nsmith/ribs:                 *)
(*   backend/src/domain/services/recommendation_service.py                 *)
(*   backend/src/domain/services/embedding_service.py                      *)
(*   backend/src/domain/entities/recommendation_request.py                 *)
(*                                                                         *)
(* One call of RecommendationService.get_recommendations is a pipeline of  *)
(* awaited calls on two ports (EmbeddingProviderPort, VectorStorePort).    *)
(* Each action below is one awaited call together with all the code that   *)
(* runs up to the next await (or up to the return).  The answers of the    *)
(* ports are inputs: every answer of the declared type may come back, or   *)
(* the call may raise.                                                     *)
(*                                                                         *)
(* Numbers.  Python floats are modelled as exact fixed-point numbers in    *)
(* units of 1/One: the float 1.0 is One, 0.5 is Half.  One is chosen so    *)
(* that every product and quotient the engine forms on the modelled inputs *)
(* is exact; IEEE rounding is not modelled.                                *)
(***************************************************************************)
EXTENDS Integers, Sequences, FiniteSets, TLC

(***************************************************************************)
(* Bounds of the model.                                                    *)
(***************************************************************************)
MaxStarred == 2   \* longest starred_gift_ids list a caller sends
MaxResults == 4   \* longest list a store call answers
MaxLimit   == 3   \* largest request.limit a caller sends (LimitMin..MaxLimit)
Dim        == 2   \* dimension of every embedding (1536 in the source)
MaxVectors == 2   \* longest list of vectors passed to blend_embeddings directly
MaxCatalogStarred == 1   \* most starred gifts of a request on the larger catalog
MaxScored  == 2   \* longest list a store answers when its scores are unchecked

(***************************************************************************)
(* Program constants.                                                      *)
(***************************************************************************)
LimitMin         == 3    \* Field(default=5, ge=3, le=10)
LimitMax         == 10
DefaultLimit     == 10   \* limit = request.limit or 10
MaxStarredIds    == 20   \* truncate_starred_gift_ids: v[:20]
MaxPastGifts     == 20   \* truncate_past_gifts: v[:20]
MaxPastGiftLen   == 200  \* truncate_past_gifts: gift[:200]
DescMin          == 3    \* Field(..., min_length=3, max_length=2000)
DescMax          == 2000
RequestDefaultLimit == 5 \* Field(default=5, ge=3, le=10)
HandlerDefaultLimit == 5 \* limit=limit or 5

Min(a, b) == IF a < b THEN a ELSE b

RECURSIVE Gcd(_, _)
Gcd(a, b) == IF b = 0 THEN a ELSE Gcd(b, a % b)

RECURSIVE LcmUpTo(_)
LcmUpTo(n) == IF n <= 1 THEN 1 ELSE (LcmUpTo(n - 1) * n) \div Gcd(LcmUpTo(n - 1), n)

\* The float 1.0.  Divisible by 20 and by 2K and N for every number K of
\* starred gifts and N of blended vectors, so that 0.5 / K, 0.25, 0.3 and
\* 1 / N are exact.
One  == 20 * LcmUpTo(MaxStarred + MaxVectors)
Half == One \div 2
Quarter == One \div 4

\* a * b for two fixed-point numbers
FMul(a, b) == (a * b) \div One

\* a / n for a fixed-point number and an integer
FDiv(a, n) == a \div n

SeqsUpTo(S, n) == UNION {[1..k -> S] : k \in 0..n}

RECURSIVE SeqSum(_)
SeqSum(s) == IF s = <<>> THEN 0 ELSE Head(s) + SeqSum(Tail(s))

(***************************************************************************)
(* The catalog and the values the ports can answer.                        *)
(***************************************************************************)
\* The catalog is a fixture of two gifts, as the sample gifts of the tests.
GiftIds == {1, 2}

\* PriceRange
PriceRanges == {"budget", "moderate", "premium", "luxury"}

\* Gift entity: the fields the engine reads (full_description, occasions,
\* recipient_types and popularity_score are never read by it).
Gift(id) == [id |-> id,
             name |-> <<"name", id>>,
             brief_description |-> <<"brief", id>>,
             price_range |-> IF id % 2 = 0 THEN "budget" ELSE "premium",
             categories |-> << <<"category", id>> >>,
             embedding |-> [i \in 1..Dim |-> IF (id + i) % 2 = 0 THEN One ELSE 0]]

Gifts == {Gift(id) : id \in GiftIds}

\* embed_text answers a vector of the provider's dimension
Embeddings == {[i \in 1..Dim |-> IF i = k THEN One ELSE 0] : k \in 1..2}

\* similarity / popularity scores in [0.0, 1.0]
Scores == {One \div 4, Half}

\* (Gift, score) tuples answered by search_similar and get_popular
Candidates == Gifts \X Scores

ResultLists == SeqsUpTo(Candidates, MaxResults)

\* get_total_count answers the size of the index: empty, or the catalog
Counts == {0, Cardinality(GiftIds)}

(***************************************************************************)
(* RecommendationRequest                                                   *)
(***************************************************************************)
\* A string is the sequence of its characters; Text(n) is a text of n
\* characters in which neighbouring characters differ.
Text(n) == [i \in 1..n |-> i % 5]

\* variant: the list is kept whole
truncate_starred_gift_ids_keeps_all(v) == v

\* v[:20]
truncate_starred_gift_ids(v) == SubSeq(v, 1, Min(Len(v), MaxStarredIds))

\* truncated = v[:20]; [gift[:200] for gift in truncated]
truncate_past_gifts(v) ==
    LET truncated == SubSeq(v, 1, Min(Len(v), MaxPastGifts))
    IN  [k \in 1..Len(truncated) |->
            SubSeq(truncated[k], 1, Min(Len(truncated[k]), MaxPastGiftLen))]

\* the value of a keyword argument, or the field's default when it is left out
Arg(kw, name, default) == IF name \in DOMAIN kw THEN kw[name] ELSE default

\* Keyword arguments a caller passes to the constructor: a description with
\* optional starred ids, or keywords with negative keywords.  The class
\* declares recipient_description, past_gifts, starred_gift_ids and limit; any
\* other keyword (negative_keywords) is not a field and is dropped.
Kwargs == [recipient_description : {Text(DescMin)},
           starred_gift_ids : SeqsUpTo(GiftIds, MaxStarred),
           limit : LimitMin..MaxLimit,
           negative_keywords : {FALSE}]
          \cup [recipient_description : {Text(DescMin)},
                starred_gift_ids : {<<>>},
                limit : LimitMin..MaxLimit,
                negative_keywords : {TRUE}]

\* variant: any positive limit is accepted
RequestValidAnyLimit(kw) ==
    /\ "recipient_description" \in DOMAIN kw
    /\ Len(kw.recipient_description) >= DescMin
    /\ Len(kw.recipient_description) <= DescMax
    /\ Arg(kw, "limit", RequestDefaultLimit) >= 1

\* the field constraints: the constructor raises ValidationError otherwise
RequestValid(kw) ==
    /\ "recipient_description" \in DOMAIN kw
    /\ Len(kw.recipient_description) >= DescMin
    /\ Len(kw.recipient_description) <= DescMax
    /\ Arg(kw, "limit", RequestDefaultLimit) >= LimitMin
    /\ Arg(kw, "limit", RequestDefaultLimit) <= LimitMax

\* the request the constructor builds from valid keyword arguments
RecommendationRequest(kw) ==
    [recipient_description |-> kw.recipient_description,
     past_gifts |-> truncate_past_gifts(Arg(kw, "past_gifts", <<>>)),
     starred_gift_ids |-> truncate_starred_gift_ids(Arg(kw, "starred_gift_ids", <<>>)),
     limit |-> Arg(kw, "limit", RequestDefaultLimit)]

(***************************************************************************)
(* EmbeddingService                                                        *)
(***************************************************************************)
\* variant: every embedding is added with the weight of the first
RECURSIVE BlendLoopFirstWeight(_, _, _, _)
BlendLoopFirstWeight(embeddings, weights, dimension, k) ==
    IF k = 0
    THEN [i \in 1..dimension |-> 0]
    ELSE LET blended == BlendLoopFirstWeight(embeddings, weights, dimension, k - 1)
         IN  [i \in 1..dimension |-> blended[i] + FMul(embeddings[k][i], weights[1])]

\* blended after the first k (embedding, weight) pairs of zip(embeddings, weights)
RECURSIVE BlendLoop(_, _, _, _)
BlendLoop(embeddings, weights, dimension, k) ==
    IF k = 0
    THEN [i \in 1..dimension |-> 0]
    ELSE LET blended == BlendLoop(embeddings, weights, dimension, k - 1)
         IN  [i \in 1..dimension |-> blended[i] + FMul(embeddings[k][i], weights[k])]

\* variant: a single embedding is weighted like any other list
blend_embeddings_no_shortcut(embeddings, weights) ==
    BlendLoop(embeddings, weights, Len(embeddings[1]),
              Min(Len(embeddings), Len(weights)))

\* blend_embeddings(embeddings, weights=weights)
blend_embeddings(embeddings, weights) ==
    IF Len(embeddings) = 1
    THEN embeddings[1]
    ELSE BlendLoop(embeddings, weights, Len(embeddings[1]),
                   Min(Len(embeddings), Len(weights)))

\* weights = [1.0 / len(embeddings)] * len(embeddings)
DefaultWeights(n) == [k \in 1..n |-> FDiv(One, n)]

\* an optional argument: left out by the caller, or given
Omitted == [given |-> FALSE, value |-> <<>>]
Given(v) == [given |-> TRUE, value |-> v]

\* how a direct call ends: it raises, or it returns a vector
Raised == [raised |-> TRUE, value |-> <<>>]
Returned(v) == [raised |-> FALSE, value |-> v]

\* embedding[i] with i in range(dimension) is out of range for one of the
\* zipped embeddings (IndexError)
BlendIndexError(embeddings, weights) ==
    \E k \in 1..Min(Len(embeddings), Len(weights)) :
        Len(embeddings[k]) < Len(embeddings[1])

\* the call blend_embeddings(embeddings) or blend_embeddings(embeddings, weights):
\* an empty list ends in ZeroDivisionError (weights omitted) or IndexError
BlendEmbeddingsCall(embeddings, weights_arg) ==
    IF Len(embeddings) = 0
    THEN Raised
    ELSE LET weights == IF weights_arg.given
                        THEN weights_arg.value
                        ELSE DefaultWeights(Len(embeddings))
         IN  IF Len(embeddings) # 1 /\ BlendIndexError(embeddings, weights)
             THEN Raised
             ELSE Returned(blend_embeddings(embeddings, weights))

\* negative_weight: float = 0.3
DefaultNegativeWeight == (3 * One) \div 10

\* variant: components below 0.0 are clamped to 0.0
subtract_embedding_clamped(positive, negative, negative_weight) ==
    [i \in 1..Len(positive) |->
        IF positive[i] - FMul(negative[i], negative_weight) < 0
        THEN 0
        ELSE positive[i] - FMul(negative[i], negative_weight)]

\* result[i] = positive[i] - (negative[i] * negative_weight)
subtract_embedding(positive, negative, negative_weight) ==
    [i \in 1..Len(positive) |-> positive[i] - FMul(negative[i], negative_weight)]

\* the call subtract_embedding(positive, negative[, negative_weight]):
\* negative[i] is out of range when negative is the shorter one (IndexError)
SubtractEmbeddingCall(positive, negative, weight_arg) ==
    IF Len(negative) < Len(positive)
    THEN Raised
    ELSE Returned(subtract_embedding(positive, negative,
                                     IF weight_arg.given
                                     THEN weight_arg.value
                                     ELSE DefaultNegativeWeight))

NoArgs == [embeddings |-> <<>>, weights |-> Omitted]
NoOutcome == Returned(<<>>)

(***************************************************************************)
(* RecommendationService                                                   *)
(***************************************************************************)
\* variant: every recommendation is given the score 0.5
GiftToRecommendationFixedScore(gift, score) ==
    [id |-> gift.id,
     name |-> gift.name,
     brief_description |-> gift.brief_description,
     relevance_score |-> Half,
     price_range |-> gift.price_range,
     categories |-> gift.categories]

\* variant: the name is shown as the brief description
GiftToRecommendationNameTwice(gift, score) ==
    [id |-> gift.id,
     name |-> gift.name,
     brief_description |-> gift.name,
     relevance_score |-> score,
     price_range |-> gift.price_range,
     categories |-> gift.categories]

\* GiftRecommendation(id=str(gift.id), name=gift.name, ...)
_gift_to_recommendation(gift, score) ==
    [id |-> gift.id,
     name |-> gift.name,
     brief_description |-> gift.brief_description,
     relevance_score |-> score,
     price_range |-> gift.price_range,
     categories |-> gift.categories]

\* relevance_score: float = Field(..., ge=0.0, le=1.0)
GiftRecommendationValid(rec) ==
    0 <= rec.relevance_score /\ rec.relevance_score <= One

\* variant: uniform weights 1 / N over the query and the starred embeddings
StarredWeightsUniform(num_starred) ==
    [j \in 1..(num_starred + 1) |-> FDiv(One, num_starred + 1)]

\* weights = [0.5] + [0.5 / num_starred] * num_starred
StarredWeights(num_starred) ==
    <<Half>> \o [j \in 1..num_starred |-> FDiv(Half, num_starred)]

\* variant: a descending sort that puts an item before the items of equal score
RECURSIVE SortByRelevanceUnstable(_)
SortByRelevanceUnstable(gifts) ==
    IF gifts = <<>>
    THEN <<>>
    ELSE LET sorted == SortByRelevanceUnstable(SubSeq(gifts, 1, Len(gifts) - 1))
             g      == gifts[Len(gifts)]
             p      == Cardinality({i \in 1..Len(sorted) :
                                      sorted[i].relevance_score > g.relevance_score})
         IN  SubSeq(sorted, 1, p) \o <<g>> \o SubSeq(sorted, p + 1, Len(sorted))

\* list.sort(key=relevance_score, reverse=True): stable, descending
RECURSIVE SortByRelevance(_)
SortByRelevance(gifts) ==
    IF gifts = <<>>
    THEN <<>>
    ELSE LET sorted == SortByRelevance(SubSeq(gifts, 1, Len(gifts) - 1))
             g      == gifts[Len(gifts)]
             p      == Cardinality({i \in 1..Len(sorted) :
                                      sorted[i].relevance_score >= g.relevance_score})
         IN  SubSeq(sorted, 1, p) \o <<g>> \o SubSeq(sorted, p + 1, Len(sorted))

\* variant: the list is returned whole
TruncateNothing(gifts, lim) == gifts

\* variant: the slice gifts[1:limit + 1]
TruncateFromSecond(gifts, lim) == SubSeq(gifts, 2, Min(Len(gifts), lim + 1))

\* gifts[:limit]
Truncate(gifts, lim) == SubSeq(gifts, 1, Min(Len(gifts), lim))

\* variant: no candidate is filtered out
FilterNothing(results, starred_ids) == results

\* filtered_results: the candidates whose id is not a starred id
FilterStarred(results, starred_ids) ==
    LET Keep(c) == c[1].id \notin starred_ids
    IN  SelectSeq(results, Keep)

\* variant: only the scores above 0.5 are counted
AboveThresholdStrict(gifts) ==
    Cardinality({i \in 1..Len(gifts) : gifts[i].relevance_score > Half})

\* len([g for g in gifts if g.relevance_score >= 0.5])
AboveThreshold(gifts) ==
    Cardinality({i \in 1..Len(gifts) : gifts[i].relevance_score >= Half})

\* lines 95-105: a candidate that is not starred has a score GiftRecommendation
\* rejects, so that the conversion raises ValidationError
ConversionRaises(results, starred_ids) ==
    LET filtered_results == FilterStarred(results, starred_ids)
    IN  \E i \in 1..Len(filtered_results) :
           ~GiftRecommendationValid(_gift_to_recommendation(filtered_results[i][1],
                                                            filtered_results[i][2]))

\* lines 94-123: filter, convert, sort, truncate, attach the query context
BuildResponse(results, starred_ids, lim, total, boost, fallback) ==
    LET filtered_results == FilterStarred(results, starred_ids)
        converted == [i \in 1..Len(filtered_results) |->
                        _gift_to_recommendation(filtered_results[i][1],
                                                filtered_results[i][2])]
        gifts == Truncate(SortByRelevance(converted), lim)
    IN  [gifts |-> gifts,
         query_context |-> [total_searched |-> total,
                            above_threshold |-> AboveThreshold(gifts),
                            starred_boost_applied |-> boost,
                            fallback_used |-> fallback]]

NoResponse == [gifts |-> <<>>,
               query_context |-> [total_searched |-> 0, above_threshold |-> 0,
                                  starred_boost_applied |-> FALSE,
                                  fallback_used |-> FALSE]]

NoSearchArgs == [embedding |-> <<>>, limit |-> 0, threshold |-> 0]

\* nothing recorded of an earlier run
NoFirst == [pc |-> "idle", response |-> NoResponse, calls |-> <<>>, call_args |-> <<>>]

\* no second call
NoFrame == [pc |-> "none"]

\* get_recommendations_handler was not called
NoTool == [state |-> "none"]

VARIABLES
    pc,                    \* the awaited call the request is at, or idle/done/raised
    kwargs,                \* what the caller passed to RecommendationRequest(...)
    request,               \* the RecommendationRequest
    query_embedding,       \* local: the vector to search with
    starred_boost_applied, \* local
    starred_gift_ids,      \* local: set of resolved starred ids
    starred_gifts,         \* local: the answer of get_by_ids
    limit,                 \* local
    search_limit,          \* local
    search_results,        \* local: candidates (search_similar or get_popular)
    total_searched,        \* local
    fallback_used,         \* local
    response,              \* the returned RecommendationResponse
    calls,                 \* history: names of the port calls made, in order
    embed_answer,          \* history: what embed_text answered
    search_args,           \* history: arguments of the search_similar call
    search_answer,         \* history: what search_similar answered
    count_answer,          \* history: what get_total_count answered
    popular_answer,        \* history: what get_popular answered
    exception,             \* history: the awaited call that raised, or "none"
                           \* (also when the conversion of a candidate raised)
    call_args,             \* history: the arguments of the port calls, in order
    tool,                  \* get_recommendations_handler: its arguments and whether
                           \* it is running or returned an error or a result
    catalog,               \* the ids of the gifts ingestion has written to the store
    catalog_at_search,     \* history: the size of the catalog when search_similar ran
    first,                 \* history: how the same request went with other past_gifts
    replay,                \* the request is run again with other past_gifts
    suspended,             \* the frame of a second call, suspended at an await
    fn,                    \* the EmbeddingService function called directly, or "none"
    args,                  \* the arguments of that call
    outcome                \* what that call returned, or that it raised

locals == <<query_embedding, starred_boost_applied, starred_gift_ids, starred_gifts,
            limit, search_limit, search_results, total_searched, fallback_used>>
history == <<calls, embed_answer, search_args, search_answer, count_answer,
             popular_answer, exception, call_args>>
pure == <<fn, args, outcome>>
extra == <<tool, catalog, catalog_at_search, first, replay, suspended>>
vars == <<pc, kwargs, request, locals, response, history, pure, extra>>

Init ==
    /\ pc = "idle"
    /\ kwargs = [recipient_description |-> Text(DescMin), starred_gift_ids |-> <<>>,
                 limit |-> LimitMin, negative_keywords |-> FALSE]
    /\ request = RecommendationRequest(kwargs)
    /\ query_embedding = <<>>
    /\ starred_boost_applied = FALSE
    /\ starred_gift_ids = {}
    /\ starred_gifts = <<>>
    /\ limit = 0
    /\ search_limit = 0
    /\ search_results = <<>>
    /\ total_searched = 0
    /\ fallback_used = FALSE
    /\ response = NoResponse
    /\ calls = <<>>
    /\ embed_answer = <<>>
    /\ search_args = NoSearchArgs
    /\ search_answer = <<>>
    /\ count_answer = 0
    /\ popular_answer = <<>>
    /\ exception = "none"
    /\ call_args = <<>>
    /\ tool = NoTool
    /\ catalog = {}
    /\ catalog_at_search = 0
    /\ first = NoFirst
    /\ replay = FALSE
    /\ suspended = NoFrame
    /\ fn = "none"
    /\ args = NoArgs
    /\ outcome = NoOutcome

\* A caller builds a request and calls get_recommendations(request); the
\* coroutine runs to its first await, embed_text.
Call(kw) ==
    /\ kwargs' = kw
    /\ request' = RecommendationRequest(kw)
    /\ pc' = "embed_text"
    /\ UNCHANGED <<locals, response, history, pure>>

get_recommendations ==
    /\ pc = "idle"
    /\ \E kw \in Kwargs : Call(kw)
    /\ UNCHANGED extra

\* variant: the past gifts are embedded with the description
EmbedTextArgsWithPastGifts ==
    [text |-> <<request.recipient_description>> \o request.past_gifts]

\* embed_text(request.recipient_description)
EmbedTextArgs == [text |-> request.recipient_description]

\* lines 46-54: embed_text answers; the locals of the starred block are set
EmbedTextReturns(vec) ==
    /\ calls' = Append(calls, "embed_text")
    /\ call_args' = Append(call_args, EmbedTextArgs)
    /\ embed_answer' = vec
    /\ query_embedding' = vec
    /\ starred_boost_applied' = FALSE
    /\ starred_gift_ids' = {}
    /\ pc' = IF request.starred_gift_ids # <<>> THEN "get_by_ids" ELSE "search_similar"
    /\ UNCHANGED <<pure, exception, kwargs, request, starred_gifts, limit, search_limit, search_results,
                   total_searched, fallback_used, response, search_args, search_answer,
                   count_answer, popular_answer>>

EmbedText ==
    /\ pc = "embed_text"
    /\ \E vec \in Embeddings : EmbedTextReturns(vec)
    /\ UNCHANGED extra

\* get_by_ids(request.starred_gift_ids)
GetByIdsArgs == [gift_ids |-> request.starred_gift_ids]

\* what get_by_ids can answer for the ids asked: the gifts of the ids the
\* store holds, missing ids left out
FoundLists(ids) ==
    {LET Held(id) == id \in present
         found == SelectSeq(ids, Held)
     IN  [j \in 1..Len(found) |-> Gift(found[j])] : present \in SUBSET GiftIds}

\* variant: the starred gifts are embedded again, one embed_text call each
GetByIdsReturnsReEmbeds(found) ==
    /\ calls' = Append(calls, "get_by_ids") \o [j \in 1..Len(found) |-> "embed_text"]
    /\ call_args' = Append(call_args, GetByIdsArgs)
                        \o [j \in 1..Len(found) |-> [text |-> found[j].name]]
    /\ starred_gifts' = found
    /\ IF found # <<>>
       THEN LET HasEmbedding(g) == g.embedding # <<>>
                starred_embeddings ==
                    LET embs == SelectSeq(found, HasEmbedding)
                    IN  [j \in 1..Len(embs) |-> embs[j].embedding]
                all_embeddings == <<query_embedding>> \o starred_embeddings
                num_starred == Len(starred_embeddings)
            IN  /\ starred_boost_applied' = TRUE
                /\ starred_gift_ids' = {found[j].id : j \in 1..Len(found)}
                /\ query_embedding' =
                      IF starred_embeddings # <<>>
                      THEN blend_embeddings(all_embeddings, StarredWeights(num_starred))
                      ELSE query_embedding
       ELSE UNCHANGED <<starred_boost_applied, starred_gift_ids, query_embedding>>
    /\ pc' = "search_similar"
    /\ UNCHANGED <<pure, exception, kwargs, request, limit, search_limit, search_results, total_searched,
                   fallback_used, response, embed_answer, search_args, search_answer,
                   count_answer, popular_answer>>

\* variant: starred_boost_applied is set as soon as starred ids were given
GetByIdsReturnsBoostAlways(found) ==
    /\ calls' = Append(calls, "get_by_ids")
    /\ call_args' = Append(call_args, GetByIdsArgs)
    /\ starred_gifts' = found
    /\ IF found # <<>>
       THEN LET HasEmbedding(g) == g.embedding # <<>>
                starred_embeddings ==
                    LET embs == SelectSeq(found, HasEmbedding)
                    IN  [j \in 1..Len(embs) |-> embs[j].embedding]
                all_embeddings == <<query_embedding>> \o starred_embeddings
                num_starred == Len(starred_embeddings)
            IN  /\ starred_boost_applied' = TRUE
                /\ starred_gift_ids' = {found[j].id : j \in 1..Len(found)}
                /\ query_embedding' =
                      IF starred_embeddings # <<>>
                      THEN blend_embeddings(all_embeddings, StarredWeights(num_starred))
                      ELSE query_embedding
       ELSE /\ starred_boost_applied' = TRUE
            /\ UNCHANGED <<starred_gift_ids, query_embedding>>
    /\ pc' = "search_similar"
    /\ UNCHANGED <<pure, exception, kwargs, request, limit, search_limit, search_results, total_searched,
                   fallback_used, response, embed_answer, search_args, search_answer,
                   count_answer, popular_answer>>

\* variant: starred_boost_applied is set only when every starred id resolved
GetByIdsReturnsBoostIfAll(found) ==
    /\ calls' = Append(calls, "get_by_ids")
    /\ call_args' = Append(call_args, GetByIdsArgs)
    /\ starred_gifts' = found
    /\ IF found # <<>>
       THEN LET HasEmbedding(g) == g.embedding # <<>>
                starred_embeddings ==
                    LET embs == SelectSeq(found, HasEmbedding)
                    IN  [j \in 1..Len(embs) |-> embs[j].embedding]
                all_embeddings == <<query_embedding>> \o starred_embeddings
                num_starred == Len(starred_embeddings)
            IN  /\ starred_boost_applied' = (Len(found) = Len(request.starred_gift_ids))
                /\ starred_gift_ids' = {found[j].id : j \in 1..Len(found)}
                /\ query_embedding' =
                      IF starred_embeddings # <<>>
                      THEN blend_embeddings(all_embeddings, StarredWeights(num_starred))
                      ELSE query_embedding
       ELSE UNCHANGED <<starred_boost_applied, starred_gift_ids, query_embedding>>
    /\ pc' = "search_similar"
    /\ UNCHANGED <<pure, exception, kwargs, request, limit, search_limit, search_results, total_searched,
                   fallback_used, response, embed_answer, search_args, search_answer,
                   count_answer, popular_answer>>

\* lines 55-77: get_by_ids answers; blend the query with the starred embeddings
GetByIdsReturns(found) ==
    /\ calls' = Append(calls, "get_by_ids")
    /\ call_args' = Append(call_args, GetByIdsArgs)
    /\ starred_gifts' = found
    /\ IF found # <<>>
       THEN LET HasEmbedding(g) == g.embedding # <<>>
                starred_embeddings ==
                    LET embs == SelectSeq(found, HasEmbedding)
                    IN  [j \in 1..Len(embs) |-> embs[j].embedding]
                all_embeddings == <<query_embedding>> \o starred_embeddings
                num_starred == Len(starred_embeddings)
            IN  /\ starred_boost_applied' = TRUE
                /\ starred_gift_ids' = {found[j].id : j \in 1..Len(found)}
                /\ query_embedding' =
                      IF starred_embeddings # <<>>
                      THEN blend_embeddings(all_embeddings, StarredWeights(num_starred))
                      ELSE query_embedding
       ELSE UNCHANGED <<starred_boost_applied, starred_gift_ids, query_embedding>>
    /\ pc' = "search_similar"
    /\ UNCHANGED <<pure, exception, kwargs, request, limit, search_limit, search_results, total_searched,
                   fallback_used, response, embed_answer, search_args, search_answer,
                   count_answer, popular_answer>>

GetByIds ==
    /\ pc = "get_by_ids"
    /\ \E found \in FoundLists(request.starred_gift_ids) : GetByIdsReturns(found)
    /\ UNCHANGED extra

\* limit = request.limit or 10
Limit == IF request.limit # 0 THEN request.limit ELSE DefaultLimit

\* variant: no extra candidates are requested for the starred gifts
SearchLimitPlain == Limit

\* search_limit = limit + len(starred_gift_ids)
SearchLimit == Limit + Cardinality(starred_gift_ids)

\* the keyword arguments of the search_similar call
SearchArgs == [embedding |-> query_embedding, limit |-> SearchLimit, threshold |-> Half]

\* lines 74-83: search_similar is called with search_limit and threshold 0.5
SearchSimilarReturns(results) ==
    /\ calls' = Append(calls, "search_similar")
    /\ call_args' = Append(call_args, SearchArgs)
    /\ limit' = Limit
    /\ search_limit' = SearchLimit
    /\ search_args' = SearchArgs
    /\ search_answer' = results
    /\ search_results' = results
    /\ pc' = "get_total_count"
    /\ UNCHANGED <<pure, exception, kwargs, request, query_embedding, starred_boost_applied,
                   starred_gift_ids, starred_gifts, total_searched, fallback_used,
                   response, embed_answer, count_answer, popular_answer>>

SearchSimilar ==
    /\ pc = "search_similar"
    /\ \E results \in ResultLists : SearchSimilarReturns(results)
    /\ UNCHANGED extra

\* get_total_count()
GetTotalCountArgs == [none |-> TRUE]

\* get_popular(limit=search_limit)
GetPopularArgs == [limit |-> search_limit]

\* the arguments of the awaited call op
CallArgs(op) ==
    CASE op = "embed_text" -> EmbedTextArgs
      [] op = "get_by_ids" -> GetByIdsArgs
      [] op = "search_similar" -> SearchArgs
      [] op = "get_total_count" -> GetTotalCountArgs
      [] op = "get_popular" -> GetPopularArgs

\* variant: total_searched is the number of candidates found
GetTotalCountReturnsCountsResults(n) ==
    /\ calls' = Append(calls, "get_total_count")
    /\ call_args' = Append(call_args, GetTotalCountArgs)
    /\ count_answer' = n
    /\ total_searched' = Len(search_results)
    /\ IF search_results = <<>>
       THEN /\ fallback_used' = TRUE
            /\ pc' = "get_popular"
            /\ UNCHANGED response
       ELSE /\ fallback_used' = FALSE
            /\ IF ConversionRaises(search_results, starred_gift_ids)
               THEN /\ pc' = "raised"
                    /\ UNCHANGED response
               ELSE /\ response' = BuildResponse(search_results, starred_gift_ids,
                                                 limit, Len(search_results),
                                                 starred_boost_applied, FALSE)
                    /\ pc' = "done"
    /\ UNCHANGED <<pure, exception, kwargs, request, query_embedding, starred_boost_applied,
                   starred_gift_ids, starred_gifts, limit, search_limit, search_results,
                   embed_answer, search_args, search_answer, popular_answer>>

\* variant: the fallback is taken when no candidate is left after the
\* starred gifts are removed
GetTotalCountReturnsFallsBackWhenFiltered(n) ==
    /\ calls' = Append(calls, "get_total_count")
    /\ call_args' = Append(call_args, GetTotalCountArgs)
    /\ count_answer' = n
    /\ total_searched' = n
    /\ IF FilterStarred(search_results, starred_gift_ids) = <<>>
       THEN /\ fallback_used' = TRUE
            /\ pc' = "get_popular"
            /\ UNCHANGED response
       ELSE /\ fallback_used' = FALSE
            /\ IF ConversionRaises(search_results, starred_gift_ids)
               THEN /\ pc' = "raised"
                    /\ UNCHANGED response
               ELSE /\ response' = BuildResponse(search_results, starred_gift_ids,
                                                 limit, n,
                                                 starred_boost_applied, FALSE)
                    /\ pc' = "done"
    /\ UNCHANGED <<pure, exception, kwargs, request, query_embedding, starred_boost_applied,
                   starred_gift_ids, starred_gifts, limit, search_limit, search_results,
                   embed_answer, search_args, search_answer, popular_answer>>

\* lines 86-92 and, when there are results, 94-123
GetTotalCountReturns(n) ==
    /\ calls' = Append(calls, "get_total_count")
    /\ call_args' = Append(call_args, GetTotalCountArgs)
    /\ count_answer' = n
    /\ total_searched' = n
    /\ IF search_results = <<>>
       THEN /\ fallback_used' = TRUE
            /\ pc' = "get_popular"
            /\ UNCHANGED response
       ELSE /\ fallback_used' = FALSE
            /\ IF ConversionRaises(search_results, starred_gift_ids)
               THEN /\ pc' = "raised"
                    /\ UNCHANGED response
               ELSE /\ response' = BuildResponse(search_results, starred_gift_ids,
                                                 limit, n,
                                                 starred_boost_applied, FALSE)
                    /\ pc' = "done"
    /\ UNCHANGED <<pure, exception, kwargs, request, query_embedding, starred_boost_applied,
                   starred_gift_ids, starred_gifts, limit, search_limit, search_results,
                   embed_answer, search_args, search_answer, popular_answer>>

GetTotalCount ==
    /\ pc = "get_total_count"
    /\ \E n \in Counts : GetTotalCountReturns(n)
    /\ UNCHANGED extra

\* line 92 and 94-123 on the fallback path
GetPopularReturns(results) ==
    /\ calls' = Append(calls, "get_popular")
    /\ call_args' = Append(call_args, GetPopularArgs)
    /\ popular_answer' = results
    /\ search_results' = results
    /\ IF ConversionRaises(results, starred_gift_ids)
       THEN /\ pc' = "raised"
            /\ UNCHANGED response
       ELSE /\ response' = BuildResponse(results, starred_gift_ids, limit,
                                         total_searched, starred_boost_applied,
                                         fallback_used)
            /\ pc' = "done"
    /\ UNCHANGED <<pure, exception, kwargs, request, query_embedding, starred_boost_applied,
                   starred_gift_ids, starred_gifts, limit, search_limit, total_searched,
                   fallback_used, embed_answer, search_args, search_answer,
                   count_answer>>

GetPopular ==
    /\ pc = "get_popular"
    /\ \E results \in ResultLists : GetPopularReturns(results)
    /\ UNCHANGED extra

AwaitedCalls == {"embed_text", "get_by_ids", "search_similar", "get_total_count",
                 "get_popular"}

\* variant: a failing call is caught; a failing search counts as a search
\* without results, any other failure gives a response without gifts
UpstreamFailureMasked ==
    /\ pc \in AwaitedCalls
    /\ calls' = Append(calls, pc)
    /\ call_args' = Append(call_args, CallArgs(pc))
    /\ exception' = pc
    /\ IF pc = "search_similar"
       THEN /\ limit' = Limit
            /\ search_limit' = SearchLimit
            /\ search_args' = SearchArgs
            /\ pc' = "get_total_count"
            /\ UNCHANGED response
       ELSE /\ pc' = "done"
            /\ response' = BuildResponse(<<>>, {}, 0, total_searched,
                                         starred_boost_applied, fallback_used)
            /\ UNCHANGED <<limit, search_limit, search_args>>
    /\ UNCHANGED <<pure, kwargs, request, query_embedding, starred_boost_applied,
                   starred_gift_ids, starred_gifts, search_results, total_searched,
                   fallback_used, embed_answer, search_answer, count_answer,
                   popular_answer>>

\* variant: a call that raised is made once more before the request fails
UpstreamFailureRetried ==
    /\ pc \in AwaitedCalls
    /\ calls' = Append(calls, pc)
    /\ call_args' = Append(call_args, CallArgs(pc))
    /\ IF \E k \in 1..Len(calls) : calls[k] = pc
       THEN exception' = pc /\ pc' = "raised"
       ELSE UNCHANGED <<exception, pc>>
    /\ IF pc = "search_similar"
       THEN /\ limit' = Limit
            /\ search_limit' = SearchLimit
            /\ search_args' = SearchArgs
       ELSE UNCHANGED <<limit, search_limit, search_args>>
    /\ UNCHANGED <<pure, kwargs, request, query_embedding, starred_boost_applied,
                   starred_gift_ids, starred_gifts, search_results, total_searched,
                   fallback_used, response, embed_answer, search_answer, count_answer,
                   popular_answer>>

\* the awaited call raises: nothing catches it, the coroutine ends
UpstreamFailure ==
    /\ pc \in AwaitedCalls
    /\ calls' = Append(calls, pc)
    /\ call_args' = Append(call_args, CallArgs(pc))
    /\ exception' = pc
    /\ pc' = "raised"
    /\ IF pc = "search_similar"
       THEN /\ limit' = Limit
            /\ search_limit' = SearchLimit
            /\ search_args' = SearchArgs
       ELSE UNCHANGED <<limit, search_limit, search_args>>
    /\ UNCHANGED <<pure, kwargs, request, query_embedding, starred_boost_applied,
                   starred_gift_ids, starred_gifts, search_results, total_searched,
                   fallback_used, response, embed_answer, search_answer, count_answer,
                   popular_answer>>

\* an awaited call of the request raises
Raise ==
    /\ UpstreamFailure
    /\ UNCHANGED extra

Next ==
    \/ get_recommendations
    \/ EmbedText
    \/ GetByIds
    \/ SearchSimilar
    \/ GetTotalCount
    \/ GetPopular
    \/ Raise

Spec == Init /\ [][Next]_vars

(***************************************************************************)
(* The service on a larger catalog, the store answering lists of distinct  *)
(* gifts: one request of limit LimitMin with up to MaxCatalogStarred       *)
(* different starred gifts.                                                *)
(***************************************************************************)
CatalogIds == 1..(LimitMin + MaxCatalogStarred)

\* the ids a caller stars, an id possibly more than once
CatalogStarredLists == SeqsUpTo(1..MaxCatalogStarred, MaxCatalogStarred + 1)

CatalogKwargs == [recipient_description : {Text(DescMin)},
                  starred_gift_ids : CatalogStarredLists,
                  limit : {LimitMin},
                  negative_keywords : {FALSE}]

\* for one query the store scores every gift once
CatalogScore(id) == IF id % 2 = 0 THEN Half ELSE Quarter

CatalogCandidates == {<<Gift(id), CatalogScore(id)>> : id \in CatalogIds}

\* result lists in which no gift comes twice
CatalogResultLists ==
    {s \in SeqsUpTo(CatalogCandidates, LimitMin + MaxCatalogStarred) :
        \A i \in 1..Len(s) : \A j \in 1..Len(s) : i # j => s[i][1].id # s[j][1].id}

CatalogFoundLists(ids) ==
    {LET Held(id) == id \in present
         found == SelectSeq(ids, Held)
     IN  [j \in 1..Len(found) |-> Gift(found[j])] : present \in SUBSET CatalogIds}

CatalogCall ==
    /\ pc = "idle"
    /\ \E kw \in CatalogKwargs : Call(kw)
    /\ UNCHANGED extra

CatalogGetByIds ==
    /\ pc = "get_by_ids"
    /\ \E found \in CatalogFoundLists(request.starred_gift_ids) : GetByIdsReturns(found)
    /\ UNCHANGED extra

CatalogSearchSimilar ==
    /\ pc = "search_similar"
    /\ \E results \in CatalogResultLists : SearchSimilarReturns(results)
    /\ UNCHANGED extra

CatalogGetPopular ==
    /\ pc = "get_popular"
    /\ \E results \in CatalogResultLists : GetPopularReturns(results)
    /\ UNCHANGED extra

NextCatalog ==
    \/ CatalogCall
    \/ EmbedText
    \/ CatalogGetByIds
    \/ CatalogSearchSimilar
    \/ GetTotalCount
    \/ CatalogGetPopular
    \/ Raise

SpecCatalog == Init /\ [][NextCatalog]_vars

(***************************************************************************)
(* The service on a store whose scores are not confined to [0.0, 1.0]      *)
(* (a similarity computed as 1 - distance can leave that range).           *)
(***************************************************************************)
\* -0.25, 0.0, 1.0 and 1.25
UncheckedScores == {0 - Quarter, 0, One, One + Quarter}

ScoredResultLists == SeqsUpTo(Gifts \X UncheckedScores, MaxScored)

ScoredSearchSimilar ==
    /\ pc = "search_similar"
    /\ \E results \in ScoredResultLists : SearchSimilarReturns(results)
    /\ UNCHANGED extra

ScoredGetPopular ==
    /\ pc = "get_popular"
    /\ \E results \in ScoredResultLists : GetPopularReturns(results)
    /\ UNCHANGED extra

NextScores ==
    \/ get_recommendations
    \/ EmbedText
    \/ GetByIds
    \/ ScoredSearchSimilar
    \/ GetTotalCount
    \/ ScoredGetPopular
    \/ Raise

SpecScores == Init /\ [][NextScores]_vars

(***************************************************************************)
(* Requests at both sides of every field constraint, built by a caller of  *)
(* the constructor and by get_recommendations_handler.                     *)
(***************************************************************************)
\* the ids 1..n as a list
LongIds(n) == [k \in 1..n |-> k]

\* n past gifts of m characters each
PastGifts(n, m) == [k \in 1..n |-> Text(m)]

RequestDescriptions ==
    {Text(DescMin - 1), Text(DescMin), Text(DescMax), Text(DescMax + 1)}

RequestLimits == {0, LimitMin - 1, LimitMin, LimitMax, LimitMax + 1}

RequestStarred == {<<>>, LongIds(MaxStarredIds), LongIds(MaxStarredIds + 1)}

RequestPastGifts == {<<>>, PastGifts(MaxPastGifts, MaxPastGiftLen),
                     PastGifts(MaxPastGifts + 1, MaxPastGiftLen + 1)}

\* the keyword arguments a caller passes: all four, all but limit, or the
\* description alone (an argument left out takes its default)
RequestKwargs ==
    [recipient_description : RequestDescriptions, past_gifts : RequestPastGifts,
     starred_gift_ids : RequestStarred, limit : RequestLimits]
    \cup [recipient_description : RequestDescriptions, past_gifts : RequestPastGifts,
          starred_gift_ids : RequestStarred]
    \cup [recipient_description : RequestDescriptions]

\* `x or default`: the argument when it was passed and is truthy
OrDefault(ha, name, falsy, default) ==
    IF name \in DOMAIN ha /\ ha[name] # falsy THEN ha[name] ELSE default

\* lines 43-48: the keyword arguments the handler passes to the constructor
HandlerKwargs(ha) ==
    [recipient_description |-> ha.recipient_description,
     past_gifts |-> OrDefault(ha, "past_gifts", <<>>, <<>>),
     starred_gift_ids |-> OrDefault(ha, "starred_gift_ids", <<>>, <<>>),
     limit |-> OrDefault(ha, "limit", 0, HandlerDefaultLimit)]

\* RecommendationRequest(**kw): ValidationError, or the request, with which
\* the service is called
Construct(kw) ==
    IF RequestValid(kw)
    THEN Call(kw)
    ELSE /\ kwargs' = kw
         /\ pc' = "rejected"
         /\ UNCHANGED <<request, locals, response, history, pure>>

\* a caller builds a request and, when that succeeds, calls the service
ConstructRequest ==
    /\ pc = "idle"
    /\ \E kw \in RequestKwargs : Construct(kw)
    /\ UNCHANGED extra

\* lines 41-53 and 64-66: the handler builds the request; a ValidationError
\* is answered with _build_error_response
get_recommendations_handler ==
    /\ pc = "idle"
    /\ \E ha \in RequestKwargs :
          /\ Construct(HandlerKwargs(ha))
          /\ tool' = [state |-> IF pc' = "rejected" THEN "error" ELSE "running",
                      args |-> ha]
    /\ UNCHANGED <<catalog, catalog_at_search, first, replay, suspended>>

\* lines 53-70: the handler returns _build_structured_response when the
\* service returned and _build_error_response when it raised
HandlerAfter(next_pc) ==
    IF tool.state # "running" THEN tool
    ELSE IF next_pc = "done" THEN [tool EXCEPT !.state = "structured"]
    ELSE IF next_pc = "raised" THEN [tool EXCEPT !.state = "error"]
    ELSE tool

\* the store of these requests holds the gifts around the cut of the list
RequestFoundLists(ids) ==
    {LET Held(id) == id \in present
         found == SelectSeq(ids, Held)
     IN  [j \in 1..Len(found) |-> Gift(found[j])] :
        present \in SUBSET {MaxStarredIds, MaxStarredIds + 1}}

RequestResultLists == {<<>>, << <<Gift(1), Half>> >>}

RequestEmbedText ==
    /\ pc = "embed_text"
    /\ \E vec \in Embeddings : EmbedTextReturns(vec)
    /\ tool' = HandlerAfter(pc')
    /\ UNCHANGED <<catalog, catalog_at_search, first, replay, suspended>>

RequestGetByIds ==
    /\ pc = "get_by_ids"
    /\ \E found \in RequestFoundLists(request.starred_gift_ids) : GetByIdsReturns(found)
    /\ tool' = HandlerAfter(pc')
    /\ UNCHANGED <<catalog, catalog_at_search, first, replay, suspended>>

RequestSearchSimilar ==
    /\ pc = "search_similar"
    /\ \E results \in RequestResultLists : SearchSimilarReturns(results)
    /\ tool' = HandlerAfter(pc')
    /\ UNCHANGED <<catalog, catalog_at_search, first, replay, suspended>>

RequestGetTotalCount ==
    /\ pc = "get_total_count"
    /\ \E n \in Counts : GetTotalCountReturns(n)
    /\ tool' = HandlerAfter(pc')
    /\ UNCHANGED <<catalog, catalog_at_search, first, replay, suspended>>

RequestGetPopular ==
    /\ pc = "get_popular"
    /\ \E results \in RequestResultLists : GetPopularReturns(results)
    /\ tool' = HandlerAfter(pc')
    /\ UNCHANGED <<catalog, catalog_at_search, first, replay, suspended>>

RequestRaise ==
    /\ UpstreamFailure
    /\ tool' = HandlerAfter(pc')
    /\ UNCHANGED <<catalog, catalog_at_search, first, replay, suspended>>

NextRequest ==
    \/ ConstructRequest
    \/ get_recommendations_handler
    \/ RequestEmbedText
    \/ RequestGetByIds
    \/ RequestSearchSimilar
    \/ RequestGetTotalCount
    \/ RequestGetPopular
    \/ RequestRaise

SpecRequest == Init /\ [][NextRequest]_vars

(***************************************************************************)
(* One request run twice against the same provider and store, the second   *)
(* time with other past_gifts: a port answers a call of the second run as  *)
(* it answered the same call with the same arguments in the first run.     *)
(***************************************************************************)
\* past gifts named as the gifts of the catalog
PastGiftLists == SeqsUpTo({Gift(id).name : id \in GiftIds}, 1)

ReplayKwargs == [recipient_description : {Text(DescMin)},
                 past_gifts : PastGiftLists,
                 starred_gift_ids : SeqsUpTo(GiftIds, 1),
                 limit : {LimitMin}]

ReplayCall ==
    /\ pc = "idle"
    /\ \E kw \in ReplayKwargs : Call(kw)
    /\ UNCHANGED extra

\* the run ended; the same caller sends the request again, with other
\* past_gifts, to a service whose ports answer as before
Replay ==
    /\ pc \in {"done", "raised"}
    /\ ~replay
    /\ \E other \in PastGiftLists \ {kwargs.past_gifts} :
          /\ kwargs' = [kwargs EXCEPT !.past_gifts = other]
          /\ request' = RecommendationRequest(kwargs')
    /\ first' = [pc |-> pc, response |-> response, calls |-> calls,
                 call_args |-> call_args, exception |-> exception,
                 embed_answer |-> embed_answer, starred_gifts |-> starred_gifts,
                 search_answer |-> search_answer, count_answer |-> count_answer,
                 popular_answer |-> popular_answer]
    /\ replay' = TRUE
    /\ pc' = "embed_text"
    /\ query_embedding' = <<>>
    /\ starred_boost_applied' = FALSE
    /\ starred_gift_ids' = {}
    /\ starred_gifts' = <<>>
    /\ limit' = 0
    /\ search_limit' = 0
    /\ search_results' = <<>>
    /\ total_searched' = 0
    /\ fallback_used' = FALSE
    /\ response' = NoResponse
    /\ calls' = <<>>
    /\ embed_answer' = <<>>
    /\ search_args' = NoSearchArgs
    /\ search_answer' = <<>>
    /\ count_answer' = 0
    /\ popular_answer' = <<>>
    /\ exception' = "none"
    /\ call_args' = <<>>
    /\ UNCHANGED <<pure, tool, catalog, catalog_at_search, suspended>>

\* the call the second run is about to make was made by the first run, at
\* the same place and with the same arguments
AskedBefore(op) ==
    /\ replay
    /\ Len(calls) < Len(first.calls)
    /\ first.calls[Len(calls) + 1] = op
    /\ first.call_args[Len(calls) + 1] = CallArgs(op)

\* the port may answer the call op with answer: a call asked before is
\* answered as before
SameAnswer(op, answer, before) ==
    AskedBefore(op) => first.exception # op /\ answer = before

ReplayEmbedText ==
    /\ pc = "embed_text"
    /\ \E vec \in Embeddings :
          /\ SameAnswer("embed_text", vec, first.embed_answer)
          /\ EmbedTextReturns(vec)
    /\ UNCHANGED extra

ReplayGetByIds ==
    /\ pc = "get_by_ids"
    /\ \E found \in FoundLists(request.starred_gift_ids) :
          /\ SameAnswer("get_by_ids", found, first.starred_gifts)
          /\ GetByIdsReturns(found)
    /\ UNCHANGED extra

ReplaySearchSimilar ==
    /\ pc = "search_similar"
    /\ \E results \in RequestResultLists :
          /\ SameAnswer("search_similar", results, first.search_answer)
          /\ SearchSimilarReturns(results)
    /\ UNCHANGED extra

ReplayGetTotalCount ==
    /\ pc = "get_total_count"
    /\ \E n \in Counts :
          /\ SameAnswer("get_total_count", n, first.count_answer)
          /\ GetTotalCountReturns(n)
    /\ UNCHANGED extra

ReplayGetPopular ==
    /\ pc = "get_popular"
    /\ \E results \in RequestResultLists :
          /\ SameAnswer("get_popular", results, first.popular_answer)
          /\ GetPopularReturns(results)
    /\ UNCHANGED extra

\* a call asked before raises when it raised before
ReplayRaise ==
    /\ pc \in AwaitedCalls
    /\ AskedBefore(pc) => first.exception = pc
    /\ UpstreamFailure
    /\ UNCHANGED extra

NextReplay ==
    \/ ReplayCall
    \/ Replay
    \/ ReplayEmbedText
    \/ ReplayGetByIds
    \/ ReplaySearchSimilar
    \/ ReplayGetTotalCount
    \/ ReplayGetPopular
    \/ ReplayRaise

SpecReplay == Init /\ [][NextReplay]_vars

(***************************************************************************)
(* Two calls of get_recommendations on one service instance, interleaved   *)
(* at their awaits.  The instance holds the two ports and the embedding    *)
(* service, none of which get_recommendations assigns; every other name    *)
(* of the method is a local of the coroutine, kept in its frame.           *)
(***************************************************************************)
InterleavedKwargs == [recipient_description : {Text(DescMin)},
                      starred_gift_ids : SeqsUpTo({1}, 1),
                      limit : {LimitMin}]

\* the frame of the running coroutine: where it is, its argument and locals,
\* and what is recorded of its calls
Frame ==
    [pc |-> pc, kwargs |-> kwargs, request |-> request,
     query_embedding |-> query_embedding,
     starred_boost_applied |-> starred_boost_applied,
     starred_gift_ids |-> starred_gift_ids, starred_gifts |-> starred_gifts,
     limit |-> limit, search_limit |-> search_limit,
     search_results |-> search_results, total_searched |-> total_searched,
     fallback_used |-> fallback_used, response |-> response, calls |-> calls,
     embed_answer |-> embed_answer, search_args |-> search_args,
     search_answer |-> search_answer, count_answer |-> count_answer,
     popular_answer |-> popular_answer, exception |-> exception,
     call_args |-> call_args]

\* the running call is at an await, or has ended: the event loop may run
\* another coroutine
AtAwait == pc \in AwaitedCalls \cup {"done", "raised"}

InterleavedCall ==
    /\ pc = "idle"
    /\ \E kw \in InterleavedKwargs : Call(kw)
    /\ UNCHANGED extra

\* a second caller calls get_recommendations on the same instance while the
\* first call is suspended; the new coroutine runs to its first await
SecondCall ==
    /\ AtAwait
    /\ suspended = NoFrame
    /\ suspended' = Frame
    /\ \E kw \in InterleavedKwargs :
          /\ kwargs' = kw
          /\ request' = RecommendationRequest(kw)
    /\ pc' = "embed_text"
    /\ query_embedding' = <<>>
    /\ starred_boost_applied' = FALSE
    /\ starred_gift_ids' = {}
    /\ starred_gifts' = <<>>
    /\ limit' = 0
    /\ search_limit' = 0
    /\ search_results' = <<>>
    /\ total_searched' = 0
    /\ fallback_used' = FALSE
    /\ response' = NoResponse
    /\ calls' = <<>>
    /\ embed_answer' = <<>>
    /\ search_args' = NoSearchArgs
    /\ search_answer' = <<>>
    /\ count_answer' = 0
    /\ popular_answer' = <<>>
    /\ exception' = "none"
    /\ call_args' = <<>>
    /\ UNCHANGED <<pure, tool, catalog, catalog_at_search, first, replay>>

\* variant: the set of excluded ids is kept on the instance, one for all calls
SwitchSharingExcluded ==
    /\ AtAwait
    /\ suspended # NoFrame
    /\ suspended' = Frame
    /\ pc' = suspended.pc
    /\ kwargs' = suspended.kwargs
    /\ request' = suspended.request
    /\ query_embedding' = suspended.query_embedding
    /\ starred_boost_applied' = suspended.starred_boost_applied
    /\ UNCHANGED starred_gift_ids
    /\ starred_gifts' = suspended.starred_gifts
    /\ limit' = suspended.limit
    /\ search_limit' = suspended.search_limit
    /\ search_results' = suspended.search_results
    /\ total_searched' = suspended.total_searched
    /\ fallback_used' = suspended.fallback_used
    /\ response' = suspended.response
    /\ calls' = suspended.calls
    /\ embed_answer' = suspended.embed_answer
    /\ search_args' = suspended.search_args
    /\ search_answer' = suspended.search_answer
    /\ count_answer' = suspended.count_answer
    /\ popular_answer' = suspended.popular_answer
    /\ exception' = suspended.exception
    /\ call_args' = suspended.call_args
    /\ UNCHANGED <<pure, tool, catalog, catalog_at_search, first, replay>>

\* the event loop suspends the running coroutine and resumes the other one
Switch ==
    /\ AtAwait
    /\ suspended # NoFrame
    /\ suspended' = Frame
    /\ pc' = suspended.pc
    /\ kwargs' = suspended.kwargs
    /\ request' = suspended.request
    /\ query_embedding' = suspended.query_embedding
    /\ starred_boost_applied' = suspended.starred_boost_applied
    /\ starred_gift_ids' = suspended.starred_gift_ids
    /\ starred_gifts' = suspended.starred_gifts
    /\ limit' = suspended.limit
    /\ search_limit' = suspended.search_limit
    /\ search_results' = suspended.search_results
    /\ total_searched' = suspended.total_searched
    /\ fallback_used' = suspended.fallback_used
    /\ response' = suspended.response
    /\ calls' = suspended.calls
    /\ embed_answer' = suspended.embed_answer
    /\ search_args' = suspended.search_args
    /\ search_answer' = suspended.search_answer
    /\ count_answer' = suspended.count_answer
    /\ popular_answer' = suspended.popular_answer
    /\ exception' = suspended.exception
    /\ call_args' = suspended.call_args
    /\ UNCHANGED <<pure, tool, catalog, catalog_at_search, first, replay>>

NextInterleaved ==
    \/ InterleavedCall
    \/ SecondCall
    \/ Switch
    \/ EmbedText
    \/ GetByIds
    \/ RequestSearchSimilar
    \/ GetTotalCount
    \/ RequestGetPopular
    \/ Raise

SpecInterleaved == Init /\ [][NextInterleaved]_vars

(***************************************************************************)
(* The service on a store with contents: the store answers from the gifts  *)
(* it holds, and ingestion tooling upserts gifts while a request runs.     *)
(***************************************************************************)
\* the lists of n different gifts of the catalog, each with a score
StoreResultLists(n) ==
    {[k \in 1..n |-> <<Gift(ids[k]), Half>>] :
        ids \in {s \in [1..n -> catalog] :
                    \A i \in 1..n : \A j \in 1..n : i # j => s[i] # s[j]}}

\* upsert(gift), called by ingestion tooling: self._gifts[str(gift.id)] = gift
Upsert ==
    /\ \E id \in GiftIds : catalog' = catalog \cup {id}
    /\ UNCHANGED <<pc, kwargs, request, locals, response, history, pure,
                   tool, catalog_at_search, first, replay, suspended>>

\* variant: a starred id the store does not hold is written to it
StoreGetByIdsWritesBack ==
    /\ pc = "get_by_ids"
    /\ LET Held(id) == id \in catalog
           found == SelectSeq(request.starred_gift_ids, Held)
       IN  GetByIdsReturns([j \in 1..Len(found) |-> Gift(found[j])])
    /\ catalog' = catalog \cup {request.starred_gift_ids[j] :
                                   j \in 1..Len(request.starred_gift_ids)}
    /\ UNCHANGED <<tool, catalog_at_search, first, replay, suspended>>

\* get_by_ids: [self._gifts[gid] for gid in gift_ids if gid in self._gifts]
StoreGetByIds ==
    /\ pc = "get_by_ids"
    /\ LET Held(id) == id \in catalog
           found == SelectSeq(request.starred_gift_ids, Held)
       IN  GetByIdsReturns([j \in 1..Len(found) |-> Gift(found[j])])
    /\ UNCHANGED extra

\* search_similar: at most search_limit gifts of the catalog, in any order
StoreSearchSimilar ==
    /\ pc = "search_similar"
    /\ \E n \in 0..Min(SearchLimit, Cardinality(catalog)) :
          \E results \in StoreResultLists(n) : SearchSimilarReturns(results)
    /\ catalog_at_search' = Cardinality(catalog)
    /\ UNCHANGED <<tool, catalog, first, replay, suspended>>

\* get_total_count: len(self._gifts)
StoreGetTotalCount ==
    /\ pc = "get_total_count"
    /\ GetTotalCountReturns(Cardinality(catalog))
    /\ UNCHANGED extra

\* get_popular: the search_limit most popular gifts of the catalog
StoreGetPopular ==
    /\ pc = "get_popular"
    /\ \E results \in StoreResultLists(Min(search_limit, Cardinality(catalog))) :
          GetPopularReturns(results)
    /\ UNCHANGED extra

NextStore ==
    \/ InterleavedCall
    \/ Upsert
    \/ EmbedText
    \/ StoreGetByIds
    \/ StoreSearchSimilar
    \/ StoreGetTotalCount
    \/ StoreGetPopular
    \/ Raise

SpecStore == Init /\ [][NextStore]_vars

(***************************************************************************)
(* Direct calls of the two vector functions of EmbeddingService.           *)
(***************************************************************************)
service == <<pc, kwargs, request, locals, response, history>>

\* vectors of 1 to Dim components, each 0.0 or 1.0
Vectors == UNION {[1..n -> {0, One}] : n \in 1..Dim}

VectorLists == SeqsUpTo(Vectors, MaxVectors)

WeightValues == {Quarter, Half, 3 * Quarter}

\* the weights argument: omitted, or a list of any length up to MaxVectors
WeightArgs == {Omitted} \cup {Given(w) : w \in SeqsUpTo(WeightValues, MaxVectors)}

\* the negative_weight argument: omitted, 0.0, 0.5 or 1.0
NegativeWeightArgs == {Omitted} \cup {Given(w) : w \in {0, Half, One}}

BlendEmbeddings ==
    /\ fn = "none"
    /\ \E embeddings \in VectorLists : \E weights \in WeightArgs :
          /\ fn' = "blend_embeddings"
          /\ args' = [embeddings |-> embeddings, weights |-> weights]
          /\ outcome' = BlendEmbeddingsCall(embeddings, weights)
    /\ UNCHANGED <<service, extra>>

SubtractEmbedding ==
    /\ fn = "none"
    /\ \E positive \in Vectors : \E negative \in Vectors :
          \E negative_weight \in NegativeWeightArgs :
             /\ fn' = "subtract_embedding"
             /\ args' = [positive |-> positive, negative |-> negative,
                         negative_weight |-> negative_weight]
             /\ outcome' = SubtractEmbeddingCall(positive, negative, negative_weight)
    /\ UNCHANGED <<service, extra>>

NextVectors ==
    \/ BlendEmbeddings
    \/ SubtractEmbedding

SpecVectors == Init /\ [][NextVectors]_vars

TypeOK ==
    /\ pc \in {"idle", "done", "raised"} \cup AwaitedCalls
    /\ kwargs \in Kwargs
    /\ limit \in {0} \cup (LimitMin..LimitMax)
    /\ Len(response.gifts) <= MaxResults

(***************************************************************************)
(* Properties                                                              *)
(***************************************************************************)
Done == pc = "done"

\* the number of calls of a port operation the request has made
NumCalls(op) == Cardinality({k \in 1..Len(calls) : calls[k] = op})

\* the awaited call op raised
RaisedIn(op) == pc = "raised" /\ exception = op

\* the port operation was called and answered
Answered(op) == NumCalls(op) > 0 /\ ~RaisedIn(op)

\* ids of the gifts get_by_ids resolved
ResolvedIds == {starred_gifts[j].id : j \in 1..Len(starred_gifts)}

\* the store's result list the recommendations are taken from
StoreList == IF search_answer # <<>> THEN search_answer ELSE popular_answer

\* the store's candidates that are not resolved starred gifts, as (id, score)
UnstarredOf(list) ==
    LET NotStarred(c) == c[1].id \notin ResolvedIds
        kept == SelectSeq(list, NotStarred)
    IN  [k \in 1..Len(kept) |->
            [id |-> kept[k][1].id,
             name |-> kept[k][1].name,
             brief_description |-> kept[k][1].brief_description,
             relevance_score |-> kept[k][2],
             price_range |-> kept[k][1].price_range,
             categories |-> kept[k][1].categories]]

WithScore(recs, s) ==
    LET HasScore(r) == r.relevance_score = s
    IN  SelectSeq(recs, HasScore)

IsPrefix(a, b) == Len(a) <= Len(b) /\ SubSeq(b, 1, Len(a)) = a

\* C1: the returned gift list never has more than request.limit items, on
\* the search path and on the fallback path, with or without starred gifts.
C1_LimitRespected == Done => Len(response.gifts) <= request.limit

\* C1 witness: starred gifts resolved, the fallback list holds more than
\* limit unstarred candidates, and exactly limit are returned.
C1_Witness ==
    /\ Done
    /\ fallback_used
    /\ ResolvedIds # {}
    /\ search_limit = request.limit + Cardinality(ResolvedIds)
    /\ Len(UnstarredOf(popular_answer)) > request.limit
    /\ Len(response.gifts) = request.limit

\* C2: no returned recommendation has the id of a gift that get_by_ids
\* resolved, whichever list the candidates came from.
C2_StarredExcluded ==
    Done => \A i \in 1..Len(response.gifts) : response.gifts[i].id \notin ResolvedIds

\* C2 witness: a resolved starred gift is among the store's candidates and
\* other candidates are returned.
C2_Witness ==
    /\ Done
    /\ \E k \in 1..Len(StoreList) : StoreList[k][1].id \in ResolvedIds
    /\ response.gifts # <<>>

\* C3: the returned list is in non-increasing relevance_score order, and
\* recommendations of equal score keep the order of the store's list.
C3_SortedStable ==
    Done =>
        /\ \A i \in 1..Len(response.gifts) : \A j \in 1..Len(response.gifts) :
              i < j => response.gifts[i].relevance_score >= response.gifts[j].relevance_score
        /\ \A s \in Scores :
              IsPrefix(WithScore(response.gifts, s), WithScore(UnstarredOf(StoreList), s))

\* C3 witness: the store's list is not in descending order and two
\* different gifts of equal score are returned.
C3_Witness ==
    /\ Done
    /\ \E i \in 1..Len(StoreList) : \E j \in 1..Len(StoreList) :
          i < j /\ StoreList[i][2] < StoreList[j][2]
    /\ \E i \in 1..Len(response.gifts) : \E j \in 1..Len(response.gifts) :
          /\ i < j
          /\ response.gifts[i].relevance_score = response.gifts[j].relevance_score
          /\ response.gifts[i].id # response.gifts[j].id

\* C4: when search_similar answers an empty list the response has
\* fallback_used = TRUE and every recommendation is an item of the
\* get_popular answer with the score that answer gave it.
C4_FallbackOnEmptySearch ==
    (Done /\ search_answer = <<>>) =>
        /\ response.query_context.fallback_used
        /\ \A i \in 1..Len(response.gifts) :
              \E k \in 1..Len(popular_answer) :
                 /\ popular_answer[k][1].id = response.gifts[i].id
                 /\ popular_answer[k][2] = response.gifts[i].relevance_score

\* C4 witness: the search answered nothing and popular gifts are returned.
C4_Witness ==
    /\ Done
    /\ search_answer = <<>>
    /\ NumCalls("get_popular") = 1
    /\ Len(response.gifts) >= 2

\* C5 as stated: a returned gift list is empty only if search_similar
\* answered no candidates and get_popular answered none either.
C5_EmptyOnlyIfBothEmpty ==
    (Done /\ response.gifts = <<>>) => (search_answer = <<>> /\ popular_answer = <<>>)

\* C5 amended: a returned gift list is empty exactly when every candidate
\* of the list the recommendations are taken from (the search_similar answer,
\* or the get_popular answer after an empty search) is a resolved starred
\* gift, which includes the case that both answers are empty.
C5_EmptyIffAllStarred ==
    Done => (response.gifts = <<>> <=>
                \A k \in 1..Len(StoreList) : StoreList[k][1].id \in ResolvedIds)

\* C5 witness: search_similar answered candidates, all of them starred, and
\* the response is empty without the fallback.
C5_Witness ==
    /\ Done
    /\ search_answer # <<>>
    /\ ~response.query_context.fallback_used
    /\ response.gifts = <<>>

\* C6: total_searched of the response is the answer of get_total_count,
\* which is called once on the search path and on the fallback path.
C6_TotalSearched ==
    Done => /\ response.query_context.total_searched = count_answer
            /\ NumCalls("get_total_count") = 1

\* C6 witness: the fallback path was taken and the count answered differs
\* from the number of candidates and of returned gifts.
C6_Witness ==
    /\ Done
    /\ response.query_context.fallback_used
    /\ count_answer = Cardinality(GiftIds)
    /\ Len(popular_answer) # count_answer
    /\ Len(response.gifts) # count_answer

\* C7: a request without negative keywords calls embed_text exactly once,
\* however many starred ids resolve and whether or not the fallback is taken.
C7_OneEmbedCall ==
    ~kwargs.negative_keywords =>
        NumCalls("embed_text") = (IF pc \in {"idle", "embed_text"} THEN 0 ELSE 1)

\* C7 witness: two starred gifts resolved, the fallback was taken, and the
\* request completed.
C7_Witness ==
    /\ Done
    /\ ~kwargs.negative_keywords
    /\ Len(starred_gifts) = 2
    /\ fallback_used
    /\ NumCalls("embed_text") = 1

\* C8: a request that carries negative keywords calls embed_text exactly
\* twice, once for the keywords and once for the negative keywords.
C8_TwoEmbedCalls ==
    (Done /\ kwargs.negative_keywords) => NumCalls("embed_text") = 2

\* search_similar has been called
SearchCalled == NumCalls("search_similar") > 0

\* the sum of the i-th components of the embeddings of a list of gifts
RECURSIVE SumAt(_, _)
SumAt(gifts, i) ==
    IF gifts = <<>> THEN 0 ELSE Head(gifts).embedding[i] + SumAt(Tail(gifts), i)

C10_UnresolvedStarredIgnored ==
    (Answered("get_by_ids") /\ starred_gifts = <<>>) =>
        /\ ~starred_boost_applied
        /\ pc \in {"search_similar", "get_total_count", "get_popular", "done", "raised"}
        /\ pc = "raised" =>
              calls[Len(calls)] \in {"search_similar", "get_total_count", "get_popular"}
        /\ SearchCalled => search_args.embedding = embed_answer
        /\ Done => ~response.query_context.starred_boost_applied

\* C10 witness: two starred ids were given, none resolved, and the request
\* completed with recommendations.
C10_Witness ==
    /\ Done
    /\ Len(request.starred_gift_ids) = 2
    /\ Answered("get_by_ids")
    /\ starred_gifts = <<>>
    /\ response.gifts # <<>>

\* C11: starred_boost_applied of the response is true exactly when get_by_ids
\* resolved at least one of the request's starred ids; it is false for a
\* request without starred ids, and true when only some of the ids resolve.
C11_StarredBoostFlag ==
    Done =>
        /\ response.query_context.starred_boost_applied <=> ResolvedIds # {}
        /\ request.starred_gift_ids = <<>> =>
              ~response.query_context.starred_boost_applied

\* C11 witness: two different ids were starred, one of them resolved, and
\* the response carries the flag.
C11_Witness ==
    /\ Done
    /\ Len(request.starred_gift_ids) = 2
    /\ request.starred_gift_ids[1] # request.starred_gift_ids[2]
    /\ Len(starred_gifts) = 1
    /\ response.query_context.starred_boost_applied

\* no gift comes twice in a store answer
DistinctIds(list) ==
    \A i \in 1..Len(list) : \A j \in 1..Len(list) : i # j => list[i][1].id # list[j][1].id

\* C12: search_similar is called with threshold 0.5 and limit =
\* request.limit + K, K the number of distinct resolved starred gifts; when
\* the store answers limit + K candidates of distinct ids, the response has
\* exactly request.limit recommendations.
C12_SearchLimitCompensates ==
    /\ SearchCalled =>
          /\ search_args.threshold = Half
          /\ search_args.limit = request.limit + Cardinality(ResolvedIds)
    /\ (Done /\ DistinctIds(StoreList)
             /\ Len(StoreList) = request.limit + Cardinality(ResolvedIds)) =>
          Len(response.gifts) = request.limit

\* C12 witness: one gift starred twice resolved (K = 1), the search answered
\* limit + 1 different gifts, the starred one among them, and limit came back.
C12_Witness ==
    /\ Done
    /\ Len(starred_gifts) = 2
    /\ Cardinality(ResolvedIds) = 1
    /\ Len(search_answer) = request.limit + 1
    /\ DistinctIds(search_answer)
    /\ \E k \in 1..Len(search_answer) : search_answer[k][1].id \in ResolvedIds
    /\ Len(response.gifts) = request.limit

\* C13: for a keyword-style request search_similar is called with
\* limit = 2 * request.limit and threshold 0.3.
C13_KeywordSearchArgs ==
    (SearchCalled /\ kwargs.negative_keywords) =>
        /\ search_args.limit = 2 * request.limit
        /\ search_args.threshold = (3 * One) \div 10

\* C14: above_threshold of the response is the number of returned
\* recommendations whose relevance_score is at least the threshold passed to
\* search_similar, so 0 <= above_threshold <= number returned <= limit.
C14_AboveThreshold ==
    Done =>
        LET gifts == response.gifts
            above == response.query_context.above_threshold
        IN  /\ above = Cardinality({i \in 1..Len(gifts) :
                                      gifts[i].relevance_score >= search_args.threshold})
            /\ 0 <= above
            /\ above <= Len(gifts)
            /\ Len(gifts) <= request.limit

\* C14 witness: the store held more unstarred candidates than were returned,
\* and some but not all returned recommendations reach the threshold.
C14_Witness ==
    /\ Done
    /\ Len(UnstarredOf(StoreList)) > Len(response.gifts)
    /\ response.query_context.above_threshold > 0
    /\ response.query_context.above_threshold < Len(response.gifts)

\* C15: when an awaited call raises, get_recommendations raises: the request
\* ends there without a response and makes no further call; in particular a
\* failing search_similar is not followed by the get_popular fallback.
C15_FailurePropagates ==
    exception # "none" =>
        /\ pc = "raised"
        /\ response = NoResponse
        /\ calls[Len(calls)] = exception
        /\ ~ENABLED Next
        /\ exception = "search_similar" =>
              NumCalls("get_popular") = 0 /\ ~fallback_used

\* C15 witness: search_similar raised after a starred gift was resolved.
C15_Witness ==
    /\ exception = "search_similar"
    /\ starred_gifts # <<>>
    /\ pc = "raised"

\* blend_embeddings was called directly
Blended == fn = "blend_embeddings"

\* subtract_embedding was called directly
Subtracted == fn = "subtract_embedding"

\* C16: blend_embeddings called with exactly one vector returns that vector,
\* element for element, whether weights are omitted or given (of any length).
C16_SingleVectorIdentity ==
    (Blended /\ Len(args.embeddings) = 1) =>
        /\ ~outcome.raised
        /\ outcome.value = args.embeddings[1]

\* C16 witness: one non-zero vector was blended with the weight list [0.25].
C16_Witness ==
    /\ Blended
    /\ args.embeddings = << <<One, 0>> >>
    /\ args.weights = Given(<<Quarter>>)
    /\ outcome = Returned(<<One, 0>>)

\* all vectors of the list have the length of the first
EqualLengths(vectors) ==
    \A k \in 1..Len(vectors) : Len(vectors[k]) = Len(vectors[1])

\* the sum over k <= n of vectors[k][i] * weights[k]
RECURSIVE WeightedSumAt(_, _, _, _)
WeightedSumAt(vectors, weights, i, n) ==
    IF n = 0
    THEN 0
    ELSE WeightedSumAt(vectors, weights, i, n - 1) + (vectors[n][i] * weights[n]) \div One

\* the weights of a call: the given ones, or 1/N each when omitted
WeightsUsed ==
    IF args.weights.given
    THEN args.weights.value
    ELSE [k \in 1..Len(args.embeddings) |-> One \div Len(args.embeddings)]

\* the result of the blend is the weighted sum, in every dimension
IsWeightedSum ==
    /\ ~outcome.raised
    /\ Len(outcome.value) = Len(args.embeddings[1])
    /\ \A i \in 1..Len(args.embeddings[1]) :
          outcome.value[i] =
              WeightedSumAt(args.embeddings, WeightsUsed, i, Len(args.embeddings))

\* C17 as stated: for every non-empty list of N equal-length vectors with N
\* weights, or with the weights omitted (1/N each), the result has the
\* input dimension and is the weighted sum of the vectors.
C17_WeightedSumAnyN ==
    (Blended /\ Len(args.embeddings) >= 1 /\ EqualLengths(args.embeddings)
             /\ Len(WeightsUsed) = Len(args.embeddings)) =>
        IsWeightedSum

\* C17 amended: the same for N >= 2 vectors, and for one vector when the
\* weights are omitted; blend([1,0],[0,1]) is [0.5,0.5] and with the weights
\* [0.75,0.25] it is [0.75,0.25].
C17_WeightedSum ==
    /\ (Blended /\ EqualLengths(args.embeddings)
                /\ Len(WeightsUsed) = Len(args.embeddings)
                /\ \/ Len(args.embeddings) >= 2
                   \/ Len(args.embeddings) = 1 /\ ~args.weights.given) =>
          IsWeightedSum
    /\ (Blended /\ args.embeddings = << <<One, 0>>, <<0, One>> >>) =>
          /\ ~args.weights.given => outcome = Returned(<<Half, Half>>)
          /\ args.weights = Given(<<3 * Quarter, Quarter>>) =>
                outcome = Returned(<<3 * Quarter, Quarter>>)

\* C17 witness: [1,0] and [0,1] were blended with the weights [0.75,0.25].
C17_Witness ==
    /\ Blended
    /\ args.embeddings = << <<One, 0>>, <<0, One>> >>
    /\ args.weights = Given(<<3 * Quarter, Quarter>>)
    /\ outcome = Returned(<<3 * Quarter, Quarter>>)

\* the negative_weight of a call: the given one, or 0.3 when omitted
NegativeWeightUsed ==
    IF args.negative_weight.given THEN args.negative_weight.value ELSE (3 * One) \div 10

\* C18: subtract_embedding on two vectors of equal length returns r of that
\* length with r[i] = positive[i] - negative[i] * w, w being 0.3 when
\* omitted; for w = 0 the result is positive itself; nothing is clamped.
C18_Subtract ==
    (Subtracted /\ Len(args.negative) = Len(args.positive)) =>
        /\ ~outcome.raised
        /\ Len(outcome.value) = Len(args.positive)
        /\ \A i \in 1..Len(args.positive) :
              10 * One * outcome.value[i] =
                  10 * One * args.positive[i]
                      - 10 * args.negative[i] * NegativeWeightUsed
        /\ ~args.negative_weight.given =>
              \A i \in 1..Len(args.positive) :
                 10 * outcome.value[i] = 10 * args.positive[i] - 3 * args.negative[i]
        /\ NegativeWeightUsed = 0 => outcome.value = args.positive

\* C18 witness: [0,1] minus [1,1] with the weight omitted has the negative
\* component -0.3.
C18_Witness ==
    /\ Subtracted
    /\ args.positive = <<0, One>>
    /\ args.negative = <<One, One>>
    /\ ~args.negative_weight.given
    /\ ~outcome.raised
    /\ 10 * outcome.value[1] = -3 * One
    /\ 10 * outcome.value[2] = 7 * One

\* C19: blend_embeddings on an empty list, and either function on vectors
\* of unequal length, raises; no result is computed from truncated inputs.
C19_MismatchRaises ==
    /\ (Blended /\ (args.embeddings = <<>> \/ ~EqualLengths(args.embeddings))) =>
          outcome.raised
    /\ (Subtracted /\ Len(args.negative) # Len(args.positive)) => outcome.raised

\* C20: no two recommendations of the returned list have the same id,
\* whatever list the store answered, one that repeats a gift included.
C20_NoDuplicateIds ==
    Done =>
        \A i \in 1..Len(response.gifts) : \A j \in 1..Len(response.gifts) :
            i # j => response.gifts[i].id # response.gifts[j].id

\* the conversion of a candidate raised ValidationError
ConversionFailed == pc = "raised" /\ exception = "none"

\* C21: every recommendation of a response has a relevance_score within
\* [0, 1] that is the score the store gave the candidate, unscaled and
\* unclamped, and the id, name, brief_description, price range and categories
\* of that candidate's gift; a candidate with a score outside [0, 1] that is
\* not starred ends the request without a response.
C21_FieldsCarriedOver ==
    /\ Done =>
          \A i \in 1..Len(response.gifts) :
             /\ response.gifts[i].relevance_score >= 0
             /\ response.gifts[i].relevance_score <= One
             /\ \E k \in 1..Len(StoreList) :
                   /\ response.gifts[i].relevance_score = StoreList[k][2]
                   /\ response.gifts[i].id = StoreList[k][1].id
                   /\ response.gifts[i].name = StoreList[k][1].name
                   /\ response.gifts[i].brief_description = StoreList[k][1].brief_description
                   /\ response.gifts[i].price_range = StoreList[k][1].price_range
                   /\ response.gifts[i].categories = StoreList[k][1].categories
    /\ ConversionFailed => response = NoResponse
    /\ (Answered("get_total_count") /\ pc # "get_popular"
           /\ \E k \in 1..Len(StoreList) :
                 /\ StoreList[k][1].id \notin ResolvedIds
                 /\ (StoreList[k][2] < 0 \/ StoreList[k][2] > One)) =>
          ConversionFailed

\* C21 witness: the store answered a starred gift with the score 1.25 and
\* another gift with the score 1.0, which is returned with that score.
C21_Witness ==
    /\ Done
    /\ \E k \in 1..Len(StoreList) :
          StoreList[k][2] > One /\ StoreList[k][1].id \in ResolvedIds
    /\ \E i \in 1..Len(response.gifts) :
          /\ response.gifts[i].relevance_score = One
          /\ response.gifts[i].price_range \in PriceRanges
\* the request was built and the service called
Accepted == pc \notin {"idle", "rejected"}

\* the constructor raised ValidationError
Rejected == pc = "rejected"

\* C22: a request exists only with a limit in [3,10], 5 when none was passed,
\* and a description of 3 to 2000 characters; keyword arguments with a limit
\* or a description length outside are rejected and the service makes no
\* call, so the service never works with a limit outside [3,10].
C22_RequestWithinBounds ==
    /\ Accepted =>
          /\ request.limit >= LimitMin /\ request.limit <= LimitMax
          /\ "limit" \notin DOMAIN kwargs => request.limit = RequestDefaultLimit
          /\ Len(request.recipient_description) >= DescMin
          /\ Len(request.recipient_description) <= DescMax
    /\ (/\ pc # "idle"
        /\ \/ "limit" \in DOMAIN kwargs
              /\ (kwargs.limit < LimitMin \/ kwargs.limit > LimitMax)
           \/ Len(kwargs.recipient_description) < DescMin
           \/ Len(kwargs.recipient_description) > DescMax)
          => Rejected /\ calls = <<>>
    /\ SearchCalled => limit >= LimitMin /\ limit <= LimitMax

C22_Witness ==
    /\ Rejected
    /\ tool = NoTool
    /\ "limit" \in DOMAIN kwargs
    /\ kwargs.limit = LimitMax + 1
    /\ Len(kwargs.recipient_description) = DescMax

\* the first n entries of v, all of v when it is shorter
FirstN(v, n) == [k \in 1..Min(Len(v), n) |-> v[k]]

\* C23: a starred_gift_ids or past_gifts list of more than 20 entries is
\* accepted; the request holds its first 20 entries in order and the first
\* 200 characters of every past gift, and get_by_ids is called with at most
\* 20 ids.
C23_SilentTruncation ==
    /\ (/\ pc # "idle"
        /\ Len(kwargs.recipient_description) >= DescMin
        /\ Len(kwargs.recipient_description) <= DescMax
        /\ Arg(kwargs, "limit", RequestDefaultLimit) >= LimitMin
        /\ Arg(kwargs, "limit", RequestDefaultLimit) <= LimitMax) => Accepted
    /\ Accepted =>
          /\ request.starred_gift_ids =
                 FirstN(Arg(kwargs, "starred_gift_ids", <<>>), MaxStarredIds)
          /\ LET given == Arg(kwargs, "past_gifts", <<>>)
             IN  /\ Len(request.past_gifts) = Min(Len(given), MaxPastGifts)
                 /\ \A k \in 1..Len(request.past_gifts) :
                        request.past_gifts[k] = FirstN(given[k], MaxPastGiftLen)
    /\ \A i \in 1..Len(calls) :
          calls[i] = "get_by_ids" =>
             /\ Len(call_args[i].gift_ids) <= MaxStarredIds
             /\ IsPrefix(call_args[i].gift_ids, Arg(kwargs, "starred_gift_ids", <<>>))

C23_Witness ==
    /\ Done
    /\ NumCalls("get_by_ids") = 1
    /\ Len(kwargs.starred_gift_ids) = MaxStarredIds + 1
    /\ Len(request.starred_gift_ids) = MaxStarredIds
    /\ Len(kwargs.past_gifts) = MaxPastGifts + 1
    /\ Len(kwargs.past_gifts[1]) = MaxPastGiftLen + 1
    /\ Len(request.past_gifts[MaxPastGifts]) = MaxPastGiftLen

\* the handler was given an argument outside a field constraint
HandlerInputInvalid ==
    /\ tool # NoTool
    /\ \/ Len(tool.args.recipient_description) < DescMin
       \/ Len(tool.args.recipient_description) > DescMax
       \/ /\ "limit" \in DOMAIN tool.args
          /\ (tool.args.limit < LimitMin \/ tool.args.limit > LimitMax)

\* C24: the handler answers an argument outside a length or range constraint,
\* a limit of 0 included, with an error and does not call the service.
C24_InvalidInputIsAnError ==
    HandlerInputInvalid => tool.state = "error" /\ calls = <<>> /\ Rejected

AloneResponse ==
    BuildResponse(StoreList, ResolvedIds, request.limit, count_answer,
                  starred_gifts # <<>>, search_answer = <<>>)

\* C26: of two calls on one service instance, interleaved at their awaits in
\* any order, each asks the store what it would ask alone and returns the
\* response it would return alone for the answers it was given.
C26_CallsIndependent ==
    /\ SearchCalled =>
          /\ search_args.limit = request.limit + Cardinality(ResolvedIds)
          /\ search_args.embedding =
                 IF starred_gifts # <<>>
                 THEN blend_embeddings(
                          <<embed_answer>> \o
                              [j \in 1..Len(starred_gifts) |-> starred_gifts[j].embedding],
                          StarredWeights(Len(starred_gifts)))
                 ELSE embed_answer
    /\ Done => response = AloneResponse

\* C26 witness: a call without starred gifts returns gift 1 although the
\* other call, suspended after get_by_ids, excludes gift 1.
C26_Witness ==
    /\ Done
    /\ request.starred_gift_ids = <<>>
    /\ \E i \in 1..Len(response.gifts) : response.gifts[i].id = 1
    /\ suspended # NoFrame
    /\ suspended.pc \in {"search_similar", "get_total_count"}
    /\ suspended.starred_gift_ids = {1}

\* the operations of the store that do not write to it
ReadOperations == {"get_by_ids", "search_similar", "get_total_count", "get_popular"}

\* C27: a step in which the request calls a port leaves the catalog as it
\* is, whether the call answers or raises, and the store is only ever asked
\* to read: the catalog changes by the upserts of ingestion alone.
C27_CatalogReadOnly ==
    [][calls' # calls =>
          /\ catalog' = catalog
          /\ calls'[Len(calls')] \in ReadOperations \cup {"embed_text"}]_vars

\* C27 witness: a request that resolved a starred gift and then failed in
\* search_similar; the catalog holds what ingestion wrote, gift 1 alone.
C27_Witness ==
    /\ RaisedIn("search_similar")
    /\ NumCalls("get_by_ids") = 1
    /\ starred_gifts # <<>>
    /\ catalog = {1}

\* C30: total_searched of a response is the size the catalog had when the
\* request's search_similar call was evaluated, whatever ingestion upserts
\* while the request runs.
C30_TotalSearchedAtSearch ==
    Done => response.query_context.total_searched = catalog_at_search

\* the awaits of get_recommendations in the order of the source
CallOrder == <<"embed_text", "get_by_ids", "search_similar", "get_total_count",
               "get_popular">>

\* the place of a port operation in that order
Place(op) == CHOOSE k \in 1..Len(CallOrder) : CallOrder[k] = op

\* C28: the calls of a request follow the order embed_text, get_by_ids,
\* search_similar, get_total_count, get_popular, each made at most once;
\* get_by_ids is made exactly for a request with starred ids, get_popular
\* exactly after an empty search answer, and a call that raised is the last
\* call of the request.
C28_CallOrder ==
    /\ \A i \in 1..Len(calls) : \A j \in 1..Len(calls) :
          i < j => Place(calls[i]) < Place(calls[j])
    /\ calls # <<>> => calls[1] = "embed_text"
    /\ NumCalls("get_by_ids") > 0 => request.starred_gift_ids # <<>>
    /\ (SearchCalled /\ request.starred_gift_ids # <<>>) => Answered("get_by_ids")
    /\ NumCalls("get_total_count") > 0 => Answered("search_similar")
    /\ NumCalls("get_popular") > 0 =>
          Answered("get_total_count") /\ search_answer = <<>>
    /\ (Done /\ search_answer = <<>>) => Answered("get_popular")
    /\ exception # "none" =>
          calls[Len(calls)] = exception /\ NumCalls(exception) = 1

\* C28 witness: a request with starred ids whose search found nothing made
\* all five calls, in order.
C28_Witness ==
    /\ Done
    /\ calls = CallOrder

\* C29: once search_similar has answered a candidate, fallback_used is
\* false and get_popular is not called, also when every candidate is a
\* resolved starred gift.
C29_NoFallbackAfterResults ==
    search_answer # <<>> =>
        /\ ~fallback_used
        /\ NumCalls("get_popular") = 0
        /\ pc # "get_popular"
        /\ Done => ~response.query_context.fallback_used

\* C29 witness: two candidates, both resolved starred gifts: no gift is
\* returned and the popular gifts were not asked for.
C29_Witness ==
    /\ Done
    /\ Len(search_answer) >= 2
    /\ \A k \in 1..Len(search_answer) : search_answer[k][1].id \in ResolvedIds
    /\ response.gifts = <<>>
    /\ calls = <<"embed_text", "get_by_ids", "search_similar", "get_total_count">>
====
